---- MODULE Spec2Model ----
(***************************************************************************)
(* Model of src/location.py: the location cache, get_current_location,    *)
(* clear_location_cache, set_cache_duration, get_cache_status and          *)
(* get_location_async with its background threads.                         *)
(*                                                                         *)
(* Time.  time.time() is modelled by the clock `now`, counted in ticks of  *)
(* 0.05 s (Sec(1) = 20 ticks), so that the polling interval bounds 0.1 s   *)
(* and 1.0 s and the default 0.25 s are whole numbers of ticks.  The only  *)
(* statement that takes time is NSRunLoop.runUntilDate_ (it takes exactly  *)
(* polling_interval); every other statement is instantaneous, and time     *)
(* also passes while the caller is between two operations.                 *)
(*                                                                         *)
(* Threads.  Thread 0 is the caller of the tools; threads 1..MaxAsync are  *)
(* the background threads started by get_location_async.  Each statement   *)
(* that reads or writes _location_cache is a step of its own wherever the  *)
(* interleaving with another thread can be observed.                       *)
(***************************************************************************)
EXTENDS Integers, Sequences, FiniteSets, TLC

VARIABLES
    cache,            \* _location_cache: data, timestamp (ticks), cache_duration (s)
    now,              \* time.time(), in ticks
    auth,             \* CLLocationManager.authorizationStatus()
    pc,               \* position of each thread
    use_cache,        \* parameters and locals of get_current_location, per thread
    timeout,
    polling_interval,
    current_time,
    start_time,
    wake,             \* the date passed to runUntilDate_
    delegate,         \* LocationDelegate of the call: location, location_error, is_updated
    result,
    seconds,          \* parameter of set_cache_duration
    callback_route,   \* parameter of get_location_async / closure of its thread
    ret,              \* value an operation returned (thread 0: the tool's response)
    trace,            \* history: sensor calls made by the current call of each thread
    posts,            \* history: payloads handed to requests.post by each thread
    bypass,           \* history: last use_cache=False return of thread 0 still undisturbed
    op,               \* history: the tool thread 0 is executing or has just returned from
    cache_before,     \* history: the cache when the current cache tool call of thread 0 began
    last_store        \* history: the last write of the cache data: who, what, and its timestamp

frame == <<use_cache, timeout, polling_interval, current_time, start_time, wake,
           delegate, result>>

vars == <<cache, now, auth, pc, use_cache, timeout, polling_interval, current_time,
          start_time, wake, delegate, result, seconds, callback_route, ret, trace,
          posts, bypass, op, cache_before, last_store>>

(***************************************************************************)
(* Bounds                                                                  *)
(***************************************************************************)
MaxAsync == 1        \* background threads that can be started
MaxTime == 140       \* no operation is started after this clock value (ticks)
MaxWaitStart == 22   \* latest start of a call in SpecWait (ticks)
MaxAsyncStart == 25  \* latest start of an operation in SpecAsync (ticks)

Main == 0
Threads == 0..MaxAsync
Workers == 1..MaxAsync

(***************************************************************************)
(* Values                                                                  *)
(***************************************************************************)
Sec(n) == n * 20

None == [type |-> "NoneType"]

\* a Python str, as the sequence of its lexical pieces
Str(s) == [str |-> s]

\* Python truth value of None, a str, a dict or an object
Truthy(v) == v \notin {None, Str(<<>>)}

Max(a, b) == IF a >= b THEN a ELSE b
Min(a, b) == IF a <= b THEN a ELSE b

kCLErrorLocationUnknown == 0
kCLErrorDenied == 1

ErrorCodes == {kCLErrorLocationUnknown, kCLErrorDenied, 2}
Errors == {[code |-> c] : c \in ErrorCodes}

CLLocation(lat, lon, ts) ==
    [coordinate |-> [latitude |-> lat, longitude |-> lon],
     horizontalAccuracy |-> 5, altitude |-> 10, verticalAccuracy |-> 3,
     course |-> 90, speed |-> 0, timestamp |-> ts]

Locations == {CLLocation(51, 0, 1)}

AuthStatuses == {"notDetermined", "denied", "authorized"}

StartTime == Sec(1)

InitCache == [data |-> None, timestamp |-> 0, cache_duration |-> 30]

NewDelegate == [location |-> None, location_error |-> None, is_updated |-> FALSE]

(***************************************************************************)
(* Pure functions                                                          *)
(***************************************************************************)
\* lines 68-81; the accessors of a CLLocation do not raise, so the fallback of
\* lines 82-86 is not taken
_format_location_data(location) ==
    IF ~Truthy(location) THEN None
    ELSE [latitude |-> location.coordinate.latitude,
          longitude |-> location.coordinate.longitude,
          accuracy |-> location.horizontalAccuracy,
          altitude |-> location.altitude,
          altitude_accuracy |-> location.verticalAccuracy,
          course |-> location.course,
          speed |-> location.speed,
          timestamp |-> location.timestamp]

_get_error_info(error) ==
    IF ~Truthy(error) THEN [code |-> 0, description |-> "Unknown error"]
    ELSE [code |-> error.code,
          description |->
              IF error.code = kCLErrorLocationUnknown
                  THEN "Unable to determine location"
              ELSE IF error.code = kCLErrorDenied
                  THEN "Location services access denied. Please enable in System Preferences."
              ELSE "Location services error " \o ToString(error.code)]

ClampTimeout(t) == Min(Max(1, t), 30)

\* variant: the polling interval is clamped from below only
ClampPollingInterval_NoUpper(p) == Max(Sec(1) \div 10, p)

ClampPollingInterval(p) == Min(Max(Sec(1) \div 10, p), Sec(1))

\* variant: no upper limit
ClampCacheDuration_NoUpper(s) == Max(5, s)

ClampCacheDuration(s) == Max(5, Min(s, 300))

\* variant: an entry whose age equals the duration still counts as fresh
CacheHit_AgeInclusive(uc, t) ==
    /\ uc
    /\ Truthy(cache.data)
    /\ t - cache.timestamp <= Sec(cache.cache_duration)

\* the condition of the cache check, for a call made with flag uc at clock value t
CacheHit(uc, t) ==
    /\ uc
    /\ Truthy(cache.data)
    /\ t - cache.timestamp < Sec(cache.cache_duration)

(***************************************************************************)
(* Inputs                                                                  *)
(***************************************************************************)
TimeoutInputs == {0, 2}                \* seconds
PollInputs == {20, 100}                \* ticks: 1.0 s, 5.0 s
DurationInputs == {-1, 1, 30, 1000}    \* seconds
IdleSteps == {Sec(1), Sec(5)}          \* time between two operations

WaitTimeoutInputs == {0, 3, 40}        \* seconds
WaitPollInputs == {0, 7, 15, 100}      \* ticks: 0.0 s, 0.35 s, 0.75 s, 5.0 s
AsyncTimeoutInputs == {0}              \* seconds
AsyncPollInputs == {5}                 \* ticks: 0.25 s

ValidRoute == Str(<<"http", ":", "//", "host", "/cb">>)
Routes == {None, Str(<<>>), Str(<<"not-a-url">>), Str(<<"http", ":", "/cb">>),
           Str(<<"//", "host", "/cb">>), Str(<<"http", ":", "//", "[bad">>),
           ValidRoute}

(***************************************************************************)
(* urllib.parse.urlparse on the pieces of a str: the scheme is the piece   *)
(* before a ":", the netloc the piece after "//" up to the path; a netloc  *)
(* with an unbalanced "[" raises ValueError.                               *)
(***************************************************************************)
PathPieces == {"/cb"}
BadNetlocs == {"[bad"}

urlparse(url) ==
    LET s == url.str
        hasScheme == Len(s) >= 2 /\ s[2] = ":"
        rest == IF hasScheme THEN SubSeq(s, 3, Len(s)) ELSE s
        hasNetloc == /\ Len(rest) >= 2
                     /\ rest[1] = "//"
                     /\ rest[2] \notin PathPieces
    IN  [raises |-> hasNetloc /\ rest[2] \in BadNetlocs,
         scheme |-> Str(IF hasScheme THEN <<s[1]>> ELSE <<>>),
         netloc |-> Str(IF hasNetloc THEN <<rest[2]>> ELSE <<>>)]

\* variant: a scheme or a netloc is enough
RouteError_AnyPart(route) ==
    IF ~Truthy(route) THEN [error |-> "No callback_route specified"]
    ELSE IF urlparse(route).raises THEN [error |-> "Invalid callback_route format"]
    ELSE IF ~(Truthy(urlparse(route).scheme) \/ Truthy(urlparse(route).netloc))
        THEN [error |-> "Invalid callback_route format. Must be a valid URL."]
    ELSE None

\* the checks of get_location_async: the error it returns, or None when accepted
RouteError(route) ==
    IF ~Truthy(route) THEN [error |-> "No callback_route specified"]
    ELSE IF urlparse(route).raises THEN [error |-> "Invalid callback_route format"]
    ELSE IF ~(Truthy(urlparse(route).scheme) /\ Truthy(urlparse(route).netloc))
        THEN [error |-> "Invalid callback_route format. Must be a valid URL."]
    ELSE None

(***************************************************************************)
(* Initial state                                                           *)
(***************************************************************************)
Init ==
    /\ cache = InitCache
    /\ now = StartTime
    /\ auth \in AuthStatuses
    /\ pc = [p \in Threads |-> IF p = Main THEN "idle" ELSE "unborn"]
    /\ use_cache = [p \in Threads |-> TRUE]
    /\ timeout = [p \in Threads |-> 0]
    /\ polling_interval = [p \in Threads |-> 0]
    /\ current_time = [p \in Threads |-> 0]
    /\ start_time = [p \in Threads |-> 0]
    /\ wake = [p \in Threads |-> 0]
    /\ delegate = [p \in Threads |-> NewDelegate]
    /\ result = [p \in Threads |-> None]
    /\ seconds = 0
    /\ callback_route = [p \in Threads |-> None]
    /\ ret = [p \in Threads |-> None]
    /\ trace = [p \in Threads |-> <<>>]
    /\ posts = [p \in Threads |-> <<>>]
    /\ bypass = None
    /\ op = "none"
    /\ cache_before = None
    /\ last_store = None

(***************************************************************************)
(* get_current_location                                                    *)
(***************************************************************************)
\* lines 141-147: clamp the parameters, read the clock, evaluate the cache check
GetBegin(p, uc, t, pi) ==
    /\ use_cache' = [use_cache EXCEPT ![p] = uc]
    /\ timeout' = [timeout EXCEPT ![p] = ClampTimeout(t)]
    /\ polling_interval' = [polling_interval EXCEPT ![p] = ClampPollingInterval(pi)]
    /\ current_time' = [current_time EXCEPT ![p] = now]
    /\ trace' = [trace EXCEPT ![p] = <<>>]
    /\ pc' = [pc EXCEPT ![p] = IF CacheHit(uc, now) THEN "cached" ELSE "authorize"]

\* a return statement of get_current_location with value v
GetReturn(p, v) ==
    /\ ret' = [ret EXCEPT ![p] = v]
    /\ pc' = [pc EXCEPT ![p] = IF p = Main THEN "returned" ELSE "post"]

\* what the history variable bypass becomes when thread p returns v
BypassAfterReturn(p, v) ==
    IF p = Main /\ ~use_cache[p] THEN [result |-> v, time |-> now] ELSE bypass

CallGetCurrentLocation(uc, t, pi) ==
    /\ pc[Main] = "idle"
    /\ now <= MaxTime
    /\ GetBegin(Main, uc, t, pi)
    /\ op' = "get_current_location"
    /\ UNCHANGED <<cache_before, last_store, cache, now, auth, start_time, wake, delegate, result, seconds,
                   callback_route, ret, posts, bypass>>

\* variant: the cached path returns a failure dict instead of the stored data
ReturnCached_Other(p) ==
    /\ pc[p] = "cached"
    /\ GetReturn(p, [error |-> "Unknown error"])
    /\ UNCHANGED <<cache_before, last_store, cache, now, auth, use_cache, timeout, polling_interval, current_time,
                   start_time, wake, delegate, result, seconds, callback_route, trace,
                   posts, bypass, op>>

\* line 148
ReturnCached(p) ==
    /\ pc[p] = "cached"
    /\ GetReturn(p, cache.data)
    /\ UNCHANGED <<cache_before, last_store, cache, now, auth, use_cache, timeout, polling_interval, current_time,
                   start_time, wake, delegate, result, seconds, callback_route, trace,
                   posts, bypass, op>>

\* variant: the loop only ends on a notification
LoopContinues_IgnoresTimeout(p, d, started) == ~d.is_updated

\* line 182: the loop condition, evaluated by thread p with delegate state d and
\* start_time started
LoopContinues(p, d, started) == ~d.is_updated /\ now - started < Sec(timeout[p])

\* lines 182-183: test the loop condition; run the run loop until
\* now + polling_interval, or leave the loop
LoopTest(p, d, started) ==
    IF LoopContinues(p, d, started)
        THEN /\ wake' = [wake EXCEPT ![p] = now + polling_interval[p]]
             /\ pc' = [pc EXCEPT ![p] = "runloop"]
        ELSE /\ pc' = [pc EXCEPT ![p] = "stop"]
             /\ UNCHANGED wake

\* variant: no early return when the authorization is denied
Authorize_NoFastFail(p) ==
    /\ pc[p] = "authorize"
    /\ trace' = [trace EXCEPT ![p] =
                    @ \o <<"requestWhenInUseAuthorization", "startUpdatingLocation">>]
    /\ delegate' = [delegate EXCEPT ![p] = NewDelegate]
    /\ start_time' = [start_time EXCEPT ![p] = now]
    /\ LoopTest(p, NewDelegate, now)
    /\ UNCHANGED <<cache_before, last_store, cache, now, auth, use_cache, timeout, polling_interval, current_time,
                   result, seconds, callback_route, posts, op, ret, bypass>>

\* lines 162-182: request authorization, fast-fail when denied, else start the
\* sensor and enter the wait loop
Authorize(p) ==
    /\ pc[p] = "authorize"
    /\ IF auth = "denied"
         THEN /\ trace' = [trace EXCEPT ![p] = Append(@, "requestWhenInUseAuthorization")]
              /\ GetReturn(p, [error |-> _get_error_info(None).description])
              /\ bypass' = BypassAfterReturn(p, [error |-> _get_error_info(None).description])
              /\ UNCHANGED <<start_time, delegate, wake>>
         ELSE /\ trace' = [trace EXCEPT ![p] =
                              @ \o <<"requestWhenInUseAuthorization", "startUpdatingLocation">>]
              /\ delegate' = [delegate EXCEPT ![p] = NewDelegate]
              /\ start_time' = [start_time EXCEPT ![p] = now]
              /\ LoopTest(p, NewDelegate, now)
              /\ UNCHANGED <<ret, bypass>>
    /\ UNCHANGED <<cache_before, last_store, cache, now, auth, use_cache, timeout, polling_interval, current_time,
                   result, seconds, callback_route, posts, op>>

\* line 183: runUntilDate_ returns when its date is reached; line 182 follows
RunLoopReturns(p) ==
    /\ pc[p] = "runloop"
    /\ now = wake[p]
    /\ LoopTest(p, delegate[p], start_time[p])
    /\ UNCHANGED <<cache_before, last_store, cache, now, auth, use_cache, timeout, polling_interval, current_time,
                   start_time, delegate, result, seconds, callback_route, ret,
                   trace, posts, bypass, op>>

\* lines 48-51: the run loop delivers a location to the delegate
locationManager_didUpdateLocations_(p, location) ==
    /\ pc[p] = "runloop"
    /\ delegate' = [delegate EXCEPT ![p].location = location, ![p].is_updated = TRUE]
    /\ UNCHANGED <<cache_before, last_store, cache, now, auth, pc, use_cache, timeout, polling_interval,
                   current_time, start_time, wake, result, seconds, callback_route, ret,
                   trace, posts, bypass, op>>

\* lines 53-56: the run loop delivers an error to the delegate
locationManager_didFailWithError_(p, error) ==
    /\ pc[p] = "runloop"
    /\ delegate' = [delegate EXCEPT ![p].location_error = error, ![p].is_updated = TRUE]
    /\ UNCHANGED <<cache_before, last_store, cache, now, auth, pc, use_cache, timeout, polling_interval,
                   current_time, start_time, wake, result, seconds, callback_route, ret,
                   trace, posts, bypass, op>>

\* variant: the sensor is not stopped after the wait loop
StopUpdating_Skipped(p) ==
    /\ pc[p] = "stop"
    /\ pc' = [pc EXCEPT ![p] = "store_data"]
    /\ UNCHANGED <<cache_before, last_store, cache, now, auth, use_cache, timeout, polling_interval, current_time,
                   start_time, wake, delegate, result, seconds, callback_route, ret,
                   trace, posts, bypass, op>>

\* line 186
StopUpdating(p) ==
    /\ pc[p] = "stop"
    /\ trace' = [trace EXCEPT ![p] = Append(@, "stopUpdatingLocation")]
    /\ pc' = [pc EXCEPT ![p] = "store_data"]
    /\ UNCHANGED <<cache_before, last_store, cache, now, auth, use_cache, timeout, polling_interval, current_time,
                   start_time, wake, delegate, result, seconds, callback_route, ret,
                   posts, bypass, op>>

\* the threads between the two cache writes of a store (lines 194-195,
\* 203-204) or of a clear (lines 217-218)
MidWrite == {q \in Threads : pc[q] \in {"store_ts", "clear_ts"}}

\* variant: a delivered location wins over a delivered error
Outcome_PrefersFix(d) ==
    IF Truthy(d.location)
        THEN _format_location_data(d.location)
        ELSE [error |-> _get_error_info(d.location_error).description]

\* lines 189-191 and 200: the result of the acquisition
Outcome(d) ==
    IF Truthy(d.location_error) \/ ~Truthy(d.location)
        THEN [error |-> _get_error_info(d.location_error).description]
        ELSE _format_location_data(d.location)

\* the timestamp lines 195 and 204 store
StoredTimestamp(p) == current_time[p]

\* lines 189-194 and 200-203: classify the outcome and store it in the cache
StoreData(p) ==
    /\ pc[p] = "store_data"
    /\ result' = [result EXCEPT ![p] = Outcome(delegate[p])]
    /\ cache' = [cache EXCEPT !.data = result'[p]]
    /\ pc' = [pc EXCEPT ![p] = "store_ts"]
    /\ bypass' = None
    /\ last_store' = [by |-> p, outcome |-> result'[p], timestamp |-> StoredTimestamp(p),
                      alone |-> MidWrite \ {p} = {}]
    /\ UNCHANGED <<cache_before, now, auth, use_cache, timeout, polling_interval, current_time,
                   start_time, wake, delegate, seconds, callback_route, ret,
                   trace, posts, op>>

\* lines 195-197 and 204-206
StoreTimestamp(p) ==
    /\ pc[p] = "store_ts"
    /\ cache' = [cache EXCEPT !.timestamp = StoredTimestamp(p)]
    /\ GetReturn(p, result[p])
    /\ bypass' = IF p = Main THEN BypassAfterReturn(p, result[p]) ELSE None
    /\ UNCHANGED <<cache_before, last_store, now, auth, use_cache, timeout, polling_interval, current_time,
                   start_time, wake, delegate, result, seconds, callback_route, trace,
                   posts, op>>

(***************************************************************************)
(* clear_location_cache, set_cache_duration, get_cache_status              *)
(***************************************************************************)
\* variant: clearing the cache also puts the duration back to its default
CallClearLocationCache_ResetsDuration ==
    /\ pc[Main] = "idle"
    /\ cache' = [cache EXCEPT !.data = None, !.cache_duration = InitCache.cache_duration]
    /\ pc' = [pc EXCEPT ![Main] = "clear_ts"]
    /\ op' = "clear_location_cache"
    /\ bypass' = None
    /\ cache_before' = cache
    /\ last_store' = [by |-> Main, outcome |-> None, timestamp |-> 0,
                      alone |-> MidWrite \ {Main} = {}]
    /\ UNCHANGED <<now, auth, use_cache, timeout, polling_interval, current_time,
                   start_time, wake, delegate, result, seconds, callback_route, ret,
                   trace, posts>>

\* line 217
CallClearLocationCache ==
    /\ pc[Main] = "idle"
    /\ cache' = [cache EXCEPT !.data = None]
    /\ pc' = [pc EXCEPT ![Main] = "clear_ts"]
    /\ op' = "clear_location_cache"
    /\ bypass' = None
    /\ cache_before' = cache
    /\ last_store' = [by |-> Main, outcome |-> None, timestamp |-> 0,
                      alone |-> MidWrite \ {Main} = {}]
    /\ UNCHANGED <<now, auth, use_cache, timeout, polling_interval, current_time,
                   start_time, wake, delegate, result, seconds, callback_route, ret,
                   trace, posts>>

\* variant: clear_location_cache returns without resetting the timestamp
ClearTimestamp_KeepsTimestamp ==
    /\ pc[Main] = "clear_ts"
    /\ ret' = [ret EXCEPT ![Main] = [status |-> "cache_cleared"]]
    /\ pc' = [pc EXCEPT ![Main] = "returned"]
    /\ bypass' = None
    /\ UNCHANGED <<cache_before, last_store, cache, now, auth, use_cache, timeout, polling_interval, current_time,
                   start_time, wake, delegate, result, seconds, callback_route, trace,
                   posts, op>>

\* lines 218-219
ClearTimestamp ==
    /\ pc[Main] = "clear_ts"
    /\ cache' = [cache EXCEPT !.timestamp = 0]
    /\ ret' = [ret EXCEPT ![Main] = [status |-> "cache_cleared"]]
    /\ pc' = [pc EXCEPT ![Main] = "returned"]
    /\ bypass' = None
    /\ UNCHANGED <<cache_before, last_store, now, auth, use_cache, timeout, polling_interval, current_time,
                   start_time, wake, delegate, result, seconds, callback_route, trace,
                   posts, op>>

\* variant: setting the duration also restarts the age of the entry
SetCacheDuration_RestartsAge(s) ==
    /\ pc[Main] = "idle"
    /\ seconds' = s
    /\ cache' = [cache EXCEPT !.cache_duration = ClampCacheDuration(s),
                              !.timestamp = IF cache.data # None THEN now ELSE @]
    /\ ret' = [ret EXCEPT ![Main] = [cache_duration |-> cache'.cache_duration]]
    /\ pc' = [pc EXCEPT ![Main] = "returned"]
    /\ op' = "set_cache_duration"
    /\ bypass' = None
    /\ cache_before' = cache
    /\ UNCHANGED <<last_store, now, auth, use_cache, timeout, polling_interval, current_time,
                   start_time, wake, delegate, result, callback_route, trace, posts>>

\* lines 233-234
SetCacheDuration(s) ==
    /\ pc[Main] = "idle"
    /\ seconds' = s
    /\ cache' = [cache EXCEPT !.cache_duration = ClampCacheDuration(s)]
    /\ ret' = [ret EXCEPT ![Main] = [cache_duration |-> cache'.cache_duration]]
    /\ pc' = [pc EXCEPT ![Main] = "returned"]
    /\ op' = "set_cache_duration"
    /\ bypass' = None
    /\ cache_before' = cache
    /\ UNCHANGED <<last_store, now, auth, use_cache, timeout, polling_interval, current_time,
                   start_time, wake, delegate, result, callback_route, trace, posts>>

\* variant: seconds_until_expiration without the max(0, ...)
CacheStatus_NoFloor(t) ==
    LET time_since_update == t - cache.timestamp
        has_data == cache.data # None
    IN  [has_cached_data |-> has_data,
         cache_duration |-> cache.cache_duration,
         seconds_since_update |-> IF has_data THEN time_since_update ELSE 0,
         seconds_until_expiration |->
             IF has_data THEN Sec(cache.cache_duration) - time_since_update ELSE 0,
         is_expired |->
             IF has_data THEN time_since_update > Sec(cache.cache_duration) ELSE TRUE]

\* lines 246-256; the two seconds_ fields are in ticks
CacheStatus(t) ==
    LET time_since_update == t - cache.timestamp
        has_data == cache.data # None
    IN  [has_cached_data |-> has_data,
         cache_duration |-> cache.cache_duration,
         seconds_since_update |-> IF has_data THEN time_since_update ELSE 0,
         seconds_until_expiration |->
             IF has_data THEN Max(0, Sec(cache.cache_duration) - time_since_update) ELSE 0,
         is_expired |->
             IF has_data THEN time_since_update > Sec(cache.cache_duration) ELSE TRUE]

GetCacheStatus ==
    /\ pc[Main] = "idle"
    /\ ret' = [ret EXCEPT ![Main] = CacheStatus(now)]
    /\ pc' = [pc EXCEPT ![Main] = "returned"]
    /\ op' = "get_cache_status"
    /\ bypass' = None
    /\ cache_before' = cache
    /\ UNCHANGED <<last_store, cache, now, auth, use_cache, timeout, polling_interval, current_time,
                   start_time, wake, delegate, result, seconds, callback_route, trace,
                   posts>>

(***************************************************************************)
(* get_location_async and its thread                                       *)
(***************************************************************************)
Unborn == {p \in Workers : pc[p] = "unborn"}

\* lines 270-283: the request is rejected
RejectAsync(route) ==
    /\ pc[Main] = "idle"
    /\ RouteError(route) # None
    /\ callback_route' = [callback_route EXCEPT ![Main] = route]
    /\ ret' = [ret EXCEPT ![Main] = RouteError(route)]
    /\ pc' = [pc EXCEPT ![Main] = "returned"]
    /\ op' = "get_location_async"
    /\ bypass' = None
    /\ UNCHANGED <<cache_before, last_store, cache, now, auth, use_cache, timeout, polling_interval, current_time,
                   start_time, wake, delegate, result, seconds, trace, posts>>

\* variant: the request is accepted but thread.start() is left out
StartAsync_NoThread(route) ==
    /\ pc[Main] = "idle"
    /\ now <= MaxTime
    /\ RouteError(route) = None
    /\ Unborn # {}
    /\ callback_route' = [callback_route EXCEPT ![Main] = route]
    /\ pc' = [pc EXCEPT ![Main] = "async_return"]
    /\ op' = "get_location_async"
    /\ bypass' = None
    /\ UNCHANGED <<cache_before, last_store, cache, now, auth, use_cache, timeout, polling_interval, current_time,
                   start_time, wake, delegate, result, seconds, ret, trace, posts>>

\* lines 270-306: the request is accepted and its thread started
StartAsync(route) ==
    /\ pc[Main] = "idle"
    /\ now <= MaxTime
    /\ RouteError(route) = None
    /\ Unborn # {}
    /\ LET p == CHOOSE q \in Unborn : \A r \in Unborn : q <= r
       IN  /\ callback_route' = [callback_route EXCEPT ![Main] = route, ![p] = route]
           /\ pc' = [pc EXCEPT ![Main] = "async_return", ![p] = "thread_start"]
    /\ op' = "get_location_async"
    /\ bypass' = None
    /\ UNCHANGED <<cache_before, last_store, cache, now, auth, use_cache, timeout, polling_interval, current_time,
                   start_time, wake, delegate, result, seconds, ret, trace, posts>>

\* lines 308-312
AsyncReturn ==
    /\ pc[Main] = "async_return"
    /\ ret' = [ret EXCEPT ![Main] = [status |-> "location_request_started",
                                     callback_route |-> callback_route[Main],
                                     accuracy |-> "best"]]
    /\ pc' = [pc EXCEPT ![Main] = "returned"]
    /\ UNCHANGED <<cache_before, last_store, cache, now, auth, use_cache, timeout, polling_interval, current_time,
                   start_time, wake, delegate, result, seconds, callback_route, trace,
                   posts, bypass, op>>

\* variant: the thread lets get_current_location use the cache
ThreadGetLocation_UsesCache(p) ==
    /\ p \in Workers
    /\ pc[p] = "thread_start"
    /\ GetBegin(p, TRUE, 10, Sec(1) \div 4)
    /\ UNCHANGED <<cache_before, last_store, cache, now, auth, start_time, wake, delegate, result, seconds,
                   callback_route, ret, posts, bypass, op>>

\* line 288: get_current_location(use_cache=False, timeout=10), polling_interval 0.25
ThreadGetLocation(p) ==
    /\ p \in Workers
    /\ pc[p] = "thread_start"
    /\ GetBegin(p, FALSE, 10, Sec(1) \div 4)
    /\ UNCHANGED <<cache_before, last_store, cache, now, auth, start_time, wake, delegate, result, seconds,
                   callback_route, ret, posts, bypass, op>>

\* lines 291-299: requests.post succeeds or raises; either way the thread ends
Post(p, delivered) ==
    /\ p \in Workers
    /\ pc[p] = "post"
    /\ posts' = [posts EXCEPT ![p] = Append(@, [url |-> callback_route[p],
                                                json |-> ret[p],
                                                delivered |-> delivered])]
    /\ pc' = [pc EXCEPT ![p] = "finished"]
    /\ UNCHANGED <<cache_before, last_store, cache, now, auth, use_cache, timeout, polling_interval, current_time,
                   start_time, wake, delegate, result, seconds, callback_route, ret,
                   trace, bypass, op>>

(***************************************************************************)
(* Environment: the caller takes the response, time passes, the user       *)
(* changes the authorization                                               *)
(***************************************************************************)
\* the response reaches the caller; the frame of the call is gone
Respond ==
    /\ pc[Main] = "returned"
    /\ pc' = [pc EXCEPT ![Main] = "idle"]
    /\ ret' = [ret EXCEPT ![Main] = None]
    /\ op' = "none"
    /\ use_cache' = [use_cache EXCEPT ![Main] = TRUE]
    /\ timeout' = [timeout EXCEPT ![Main] = 0]
    /\ polling_interval' = [polling_interval EXCEPT ![Main] = 0]
    /\ current_time' = [current_time EXCEPT ![Main] = 0]
    /\ start_time' = [start_time EXCEPT ![Main] = 0]
    /\ wake' = [wake EXCEPT ![Main] = 0]
    /\ delegate' = [delegate EXCEPT ![Main] = NewDelegate]
    /\ result' = [result EXCEPT ![Main] = None]
    /\ callback_route' = [callback_route EXCEPT ![Main] = None]
    /\ trace' = [trace EXCEPT ![Main] = <<>>]
    /\ seconds' = 0
    /\ cache_before' = None
    /\ UNCHANGED <<last_store, cache, now, auth, posts, bypass>>

Sleepers == {p \in Threads : pc[p] = "runloop"}
Waiting == {p \in Threads : pc[p] \in {"idle", "unborn", "finished", "runloop"}}

\* the clock advances by d: only while every thread is between operations or in
\* its run loop, and never past the date a run loop waits for
Tick(d) ==
    /\ d > 0
    /\ Waiting = Threads
    /\ \A p \in Sleepers : now + d <= wake[p]
    /\ Sleepers = {} => now + d <= MaxTime
    /\ now' = now + d
    /\ UNCHANGED <<cache, auth, pc, use_cache, timeout, polling_interval, current_time,
                   start_time, wake, delegate, result, seconds, callback_route, ret,
                   trace, posts, bypass, op, cache_before, last_store>>

\* the steps the clock can take: to the next run loop date, or an idle step
TickSteps == IdleSteps \cup {wake[p] - now : p \in Sleepers}

\* the user changes the authorization while no thread is executing a statement
AuthChange(a) ==
    /\ a # auth
    /\ Waiting = Threads
    /\ auth' = a
    /\ UNCHANGED <<cache_before, last_store, cache, now, pc, use_cache, timeout, polling_interval, current_time,
                   start_time, wake, delegate, result, seconds, callback_route, ret,
                   trace, posts, bypass, op>>

(***************************************************************************)
(* Specification                                                           *)
(***************************************************************************)
ThreadStep(p) ==
    \/ ReturnCached(p)
    \/ Authorize(p)
    \/ RunLoopReturns(p)
    \/ StopUpdating(p)
    \/ StoreData(p)
    \/ StoreTimestamp(p)

\* the tools called one at a time, no background thread
Next ==
    \/ \E uc \in BOOLEAN, t \in TimeoutInputs, pi \in PollInputs :
           CallGetCurrentLocation(uc, t, pi)
    \/ CallClearLocationCache
    \/ ClearTimestamp
    \/ \E s \in DurationInputs : SetCacheDuration(s)
    \/ GetCacheStatus
    \/ ThreadStep(Main)
    \/ \E location \in Locations : locationManager_didUpdateLocations_(Main, location)
    \/ \E error \in Errors : locationManager_didFailWithError_(Main, error)
    \/ Respond
    \/ \E d \in TickSteps : Tick(d)
    \/ \E a \in AuthStatuses : AuthChange(a)

Spec == Init /\ [][Next]_vars

\* one acquisition at a time with the whole range of timeouts and intervals
AcquireStep(p) ==
    \/ Authorize(p)
    \/ RunLoopReturns(p)
    \/ StopUpdating(p)
    \/ StoreData(p)
    \/ StoreTimestamp(p)

NextWait ==
    \/ \E t \in WaitTimeoutInputs, pi \in WaitPollInputs :
           now <= MaxWaitStart /\ CallGetCurrentLocation(FALSE, t, pi)
    \/ AcquireStep(Main)
    \/ \E location \in Locations : locationManager_didUpdateLocations_(Main, location)
    \/ \E error \in Errors : locationManager_didFailWithError_(Main, error)
    \/ Respond
    \/ \E d \in TickSteps : Tick(d)

SpecWait == Init /\ [][NextWait]_vars

\* the thread runs and the clock advances
FairSpecWait ==
    /\ SpecWait
    /\ WF_vars(AcquireStep(Main))
    /\ WF_vars(\E d \in TickSteps : Tick(d))

\* get_location_async requests and their background threads, next to calls of
\* get_current_location and clear_location_cache by the caller; the sensor
\* delivers a location or nothing
NextAsync ==
    \/ \E route \in Routes : now <= MaxAsyncStart /\ RejectAsync(route)
    \/ \E route \in Routes : now <= MaxAsyncStart /\ StartAsync(route)
    \/ AsyncReturn
    \/ \E t \in AsyncTimeoutInputs, pi \in AsyncPollInputs :
           now <= MaxAsyncStart /\ CallGetCurrentLocation(TRUE, t, pi)
    \/ now <= MaxAsyncStart /\ CallClearLocationCache
    \/ ClearTimestamp
    \/ Respond
    \/ \E p \in Workers : ThreadGetLocation(p)
    \/ \E p \in Threads : ThreadStep(p)
    \/ \E p \in Threads, location \in Locations :
           locationManager_didUpdateLocations_(p, location)
    \/ \E p \in Workers, delivered \in BOOLEAN : Post(p, delivered)
    \/ \E d \in TickSteps : Tick(d)

SpecAsync == Init /\ [][NextAsync]_vars

TypeOK ==
    /\ cache.cache_duration \in Int
    /\ now \in Nat
    /\ auth \in AuthStatuses

(***************************************************************************)
(* Properties                                                              *)
(***************************************************************************)
Range(f) == {f[i] : i \in DOMAIN f}

IsFailure(v) == "error" \in DOMAIN v

\* thread p takes the step that begins a get_current_location call
Begins(p) == pc[p] \in {"idle", "thread_start"} /\ pc'[p] \in {"cached", "authorize"}

\* thread p takes a step that returns from get_current_location
Returns(p) ==
    /\ pc[p] \in {"cached", "authorize", "store_ts"}
    /\ pc'[p] \in {"returned", "post"}

\* C1: a use_cache=true call made at clock value t2 on an entry stored with
\* timestamp t1 is served from the cache iff the entry is not empty and
\* t2 - t1 is less than the duration; an empty cache is never served.
C1_Freshness ==
    [][Begins(Main) =>
         /\ use_cache'[Main] =>
               (pc'[Main] = "cached" <=>
                    /\ cache.data # None
                    /\ now - cache.timestamp < Sec(cache.cache_duration))
         /\ cache.data = None => pc'[Main] # "cached"]_vars

\* a use_cache=true call found an entry whose age is exactly the duration and
\* was not served
C1_Witness ==
    /\ pc[Main] = "authorize"
    /\ use_cache[Main]
    /\ cache.data # None
    /\ now > cache.timestamp
    /\ now - cache.timestamp = Sec(cache.cache_duration)

\* C2: a call served from the cache returns the stored outcome, makes no
\* sensor call and leaves the cache as it is.
C2_ShortCircuit ==
    [][/\ (Begins(Main) /\ pc'[Main] = "cached") =>
             /\ trace'[Main] = <<>>
             /\ cache' = cache
       /\ (pc[Main] = "cached" /\ Returns(Main)) =>
             /\ ret'[Main] = cache.data
             /\ cache.data # None
             /\ now - cache.timestamp < Sec(cache.cache_duration)
             /\ trace'[Main] = <<>>
             /\ cache' = cache]_vars

\* a cached failure has been returned from the cache
C2_Witness ==
    /\ pc[Main] = "returned"
    /\ op = "get_current_location"
    /\ trace[Main] = <<>>
    /\ IsFailure(ret[Main])
    /\ ret[Main] = cache.data
    /\ now > cache.timestamp

\* C3 (as claimed): every call not served from the cache has stored the
\* outcome it returns when it returns.
C3_UnconditionalStore ==
    [][(pc[Main] \in {"authorize", "store_ts"} /\ Returns(Main)) =>
           cache'.data = ret'[Main]]_vars

\* C4 (as claimed): a use_cache=true call made less than cache_duration after
\* an undisturbed use_cache=false call returned R is served from the cache,
\* which holds R.
C4_BypassThenRefresh ==
    [][(/\ Begins(Main)
        /\ use_cache'[Main]
        /\ bypass # None
        /\ now - bypass.time < Sec(cache.cache_duration)) =>
           /\ pc'[Main] = "cached"
           /\ cache.data = bypass.result]_vars

\* C5 (as claimed): the timestamp stored with an outcome is the clock value at
\* the moment of the store.
C5_TimestampIsStoreTime ==
    [][(pc[Main] = "store_ts" /\ Returns(Main)) => cache'.timestamp = now]_vars

\* C6: when the authorization is denied, the call returns a failure without
\* starting the sensor and without any time passing since it began.
C6_FastFail ==
    [][\A p \in Threads :
           (pc[p] = "authorize" /\ auth = "denied" /\ pc'[p] # "authorize") =>
               /\ Returns(p)
               /\ IsFailure(ret'[p])
               /\ "startUpdatingLocation" \notin Range(trace'[p])
               /\ now' = current_time[p]]_vars

\* a call has returned on the fast-fail path
C6_Witness ==
    /\ pc[Main] = "returned"
    /\ op = "get_current_location"
    /\ auth = "denied"
    /\ trace[Main] = <<"requestWhenInUseAuthorization">>
    /\ IsFailure(ret[Main])

\* C8: set_cache_duration stores and returns its argument limited to 5..300,
\* so the duration is always in 5..300.
C8_DurationClamp ==
    /\ [](cache.cache_duration \in 5..300)
    /\ [][(pc[Main] = "idle" /\ op' = "set_cache_duration") =>
             LET s == seconds'
                 limited == IF s < 5 THEN 5 ELSE IF s > 300 THEN 300 ELSE s
             IN  /\ cache'.cache_duration = limited
                 /\ ret'[Main] = [cache_duration |-> limited]
                 /\ s = 1 => ret'[Main].cache_duration = 5
                 /\ s = 1000 => ret'[Main].cache_duration = 300]_vars

\* set_cache_duration(1000) has returned 300
C8_Witness ==
    /\ pc[Main] = "returned"
    /\ op = "set_cache_duration"
    /\ seconds = 1000
    /\ ret[Main] = [cache_duration |-> 300]
    /\ cache.cache_duration = 300

\* C7: an acquisition the sensor never notifies ends, returns no later than
\* timeout + polling_interval (both as limited: 1..30 s and 0.1..1.0 s) after
\* the wait loop started, and returns a failure.
C7_TimeoutBound ==
    /\ []((pc[Main] \in {"runloop", "stop", "store_data", "store_ts"}
              /\ ~delegate[Main].is_updated) =>
             /\ timeout[Main] \in 1..30
             /\ polling_interval[Main] \in (Sec(1) \div 10)..Sec(1)
             /\ now - start_time[Main] <= Sec(timeout[Main]) + polling_interval[Main])
    /\ [][(pc[Main] = "store_ts" /\ Returns(Main) /\ ~delegate[Main].is_updated) =>
             /\ IsFailure(ret'[Main])
             /\ now' - start_time[Main] <= Sec(timeout[Main]) + polling_interval[Main]]_vars
    /\ (pc[Main] = "runloop" ~> pc[Main] = "returned")

\* an acquisition without notification has returned a failure, later than
\* timeout and within timeout + polling_interval after the loop started
C7_Witness ==
    /\ pc[Main] = "returned"
    /\ "startUpdatingLocation" \in Range(trace[Main])
    /\ ~delegate[Main].is_updated
    /\ IsFailure(ret[Main])
    /\ now - start_time[Main] > Sec(timeout[Main])
    /\ now - start_time[Main] < Sec(timeout[Main]) + polling_interval[Main]

\* routes that are missing or lack a scheme or a host
MalformedRoutes ==
    {None, Str(<<>>), Str(<<"not-a-url">>), Str(<<"http", ":", "/cb">>),
     Str(<<"//", "host", "/cb">>)}

\* C9: a get_location_async call with a missing or malformed callback_route
\* returns an error in the same step, starts no thread, acquires nothing,
\* delivers nothing and leaves the cache unchanged.
C9_AsyncValidation ==
    [][(/\ pc[Main] = "idle"
        /\ op' = "get_location_async"
        /\ callback_route'[Main] \in MalformedRoutes) =>
           /\ pc'[Main] = "returned"
           /\ IsFailure(ret'[Main])
           /\ \A w \in Workers : pc'[w] = pc[w]
           /\ cache' = cache
           /\ trace' = trace
           /\ posts' = posts]_vars

\* get_location_async("not-a-url") has returned an error and no thread exists
C9_Witness ==
    /\ pc[Main] = "returned"
    /\ op = "get_location_async"
    /\ callback_route[Main] = Str(<<"not-a-url">>)
    /\ IsFailure(ret[Main])
    /\ \A w \in Workers : pc[w] = "unborn"

\* the order in which a background thread goes through its positions
Stage(position) ==
    CASE position = "unborn" -> 0
      [] position = "thread_start" -> 1
      [] position = "authorize" -> 2
      [] position = "runloop" -> 3
      [] position = "stop" -> 4
      [] position = "store_data" -> 5
      [] position = "store_ts" -> 6
      [] position = "post" -> 7
      [] position = "finished" -> 8
      [] OTHER -> 9

\* C10: an accepted request starts exactly one thread; the thread runs one
\* acquisition with use_cache=false, whatever the cache holds, then makes one
\* delivery attempt of the outcome, and the attempt, failed or not, changes
\* neither the response of the caller nor the cache.
C10_AsyncDelivery ==
    /\ [](\A w \in Workers :
             /\ Stage(pc[w]) <= 8
             /\ Len(posts[w]) <= 1
             /\ Len(posts[w]) = 1 <=> pc[w] = "finished"
             /\ Stage(pc[w]) >= 2 => ~use_cache[w]
             /\ (pc[w] = "post" /\ "startUpdatingLocation" \in Range(trace[w])) =>
                    ret[w] = result[w])
    /\ [][/\ (pc[Main] = "idle" /\ pc'[Main] = "async_return") =>
                Cardinality({w \in Workers : pc[w] = "unborn" /\ pc'[w] = "thread_start"}) = 1
          /\ \A w \in Workers :
                /\ Stage(pc'[w]) >= Stage(pc[w])
                /\ pc'[w] # pc[w] =>
                       \A v \in Workers \ {w} : pc'[v] = pc[v]
                /\ (pc[w] = "unborn" /\ pc'[w] # "unborn") =>
                       pc[Main] = "idle" /\ pc'[Main] = "async_return"
                /\ (pc[w] = "thread_start" /\ pc'[w] # "thread_start") =>
                       pc'[w] = "authorize" /\ ~use_cache'[w]
                /\ (pc[w] = "post" /\ pc'[w] # "post") =>
                       /\ pc'[w] = "finished"
                       /\ posts'[w][1].json = ret[w]
                       /\ posts'[w][1].url = callback_route[w]
                       /\ cache' = cache
                       /\ ret'[Main] = ret[Main]
                       /\ pc'[Main] = pc[Main]]_vars

\* a thread has ended after one failed delivery of the outcome it acquired
C10_Witness ==
    \E w \in Workers :
        /\ pc[w] = "finished"
        /\ Len(posts[w]) = 1
        /\ ~posts[w][1].delivered
        /\ posts[w][1].json = result[w]
        /\ "stopUpdatingLocation" \in Range(trace[w])


\* the thread of the request the caller is in: threads are taken in order,
\* so it is the largest one that exists
Newest == CHOOSE w \in Workers \ Unborn : \A v \in Workers \ Unborn : v <= w

\* C11 as stated: while the caller of an accepted get_location_async has not
\* yet got its 'started' response, the acquisition of the thread of this
\* request has not begun, in every interleaving.
C11_ResponseFirst ==
    pc[Main] = "async_return" /\ Workers \ Unborn # {} =>
        pc[Newest] = "thread_start"

\* C11 amended: the thread of an accepted request is started before the
\* 'started' response is returned, and the response does not wait for the
\* thread: whatever position the thread is in, the caller can return, the
\* response is the same, and returning it changes neither the thread nor the
\* cache.
C11_ResponseIndependent ==
    /\ [](pc[Main] = "async_return" =>
             /\ Workers \ Unborn # {}
             /\ callback_route[Newest] = callback_route[Main]
             /\ ENABLED AsyncReturn)
    /\ [][pc[Main] = "async_return" /\ pc'[Main] # "async_return" =>
             /\ pc'[Main] = "returned"
             /\ ret'[Main] = [status |-> "location_request_started",
                              callback_route |-> callback_route[Main],
                              accuracy |-> "best"]
             /\ \A w \in Workers : pc'[w] = pc[w]
             /\ cache' = cache
             /\ posts' = posts]_vars

\* the thread of the request is in its run loop, the sensor started, and the
\* caller has not yet returned the response
C11_Witness ==
    /\ pc[Main] = "async_return"
    /\ Workers \ Unborn # {}
    /\ pc[Newest] = "runloop"
    /\ "startUpdatingLocation" \in Range(trace[Newest])

\* C12: clear_location_cache, from any cache state (an already cleared one
\* included, so applied twice as well as once), leaves data empty and the
\* timestamp 0 and never changes the cache duration; get_cache_status on the
\* cleared cache reports has_cached_data=false, is_expired=true and both
\* counters 0.
C12_ClearIdempotent ==
    /\ [](pc[Main] = "clear_ts" => cache.cache_duration = cache_before.cache_duration)
    /\ [][pc[Main] = "clear_ts" /\ pc'[Main] # "clear_ts" =>
             /\ pc'[Main] = "returned"
             /\ ret'[Main] = [status |-> "cache_cleared"]
             /\ cache' = [data |-> None, timestamp |-> 0,
                          cache_duration |-> cache_before.cache_duration]]_vars
    /\ [][/\ pc[Main] = "idle"
          /\ op' = "get_cache_status"
          /\ cache.data = None
          /\ cache.timestamp = 0
          => ret'[Main] = [has_cached_data |-> FALSE,
                           cache_duration |-> cache.cache_duration,
                           seconds_since_update |-> 0,
                           seconds_until_expiration |-> 0,
                           is_expired |-> TRUE]]_vars

\* clear_location_cache has returned; it was applied to a cache that held
\* data under a duration other than the default
C12_Witness ==
    /\ pc[Main] = "returned"
    /\ op = "clear_location_cache"
    /\ cache_before # None
    /\ cache_before.data # None
    /\ cache_before.timestamp > 0
    /\ cache_before.cache_duration = 300
    /\ cache = [data |-> None, timestamp |-> 0, cache_duration |-> 300]

\* C13: get_cache_status changes nothing in the cache; it reports a
\* seconds_until_expiration that is never negative and a cache_duration equal
\* to the stored duration; on an empty cache it reports is_expired=true and
\* both counters 0.
C13_StatusReadOnly ==
    [][pc[Main] = "idle" /\ op' = "get_cache_status" =>
           /\ cache' = cache
           /\ pc'[Main] = "returned"
           /\ ret'[Main].seconds_until_expiration >= 0
           /\ ret'[Main].cache_duration = cache.cache_duration
           /\ ret'[Main].has_cached_data = (cache.data # None)
           /\ cache.data = None =>
                  /\ ret'[Main].is_expired
                  /\ ret'[Main].seconds_since_update = 0
                  /\ ret'[Main].seconds_until_expiration = 0]_vars

\* get_cache_status has returned on an entry older than the cache duration:
\* the time left is reported as 0, and the cache is as it was
C13_Witness ==
    /\ pc[Main] = "returned"
    /\ op = "get_cache_status"
    /\ cache = cache_before
    /\ ret[Main].has_cached_data
    /\ ret[Main].seconds_since_update > Sec(cache.cache_duration)
    /\ ret[Main].seconds_until_expiration = 0

\* C14: get_current_location never rejects a timeout or polling interval: it
\* uses min(max(1, timeout), 30) and min(max(0.1, polling_interval), 1.0).  A
\* call with timeout=0 and polling_interval=5.0 takes the program to the very
\* state a call with timeout=1 and polling_interval=1.0 takes it to, so the two
\* calls have the same wait bound, outcome and cache effect whatever the
\* sensor does afterwards.
C14_ClampEquivalence ==
    [][/\ \A uc \in BOOLEAN :
            /\ CallGetCurrentLocation(uc, 0, Sec(5)) <=>
                   CallGetCurrentLocation(uc, 1, Sec(1))
            /\ CallGetCurrentLocation(uc, 0, Sec(5)) =>
                   /\ timeout'[Main] = 1
                   /\ polling_interval'[Main] = Sec(1)
       /\ pc[Main] = "idle" /\ op' = "get_current_location" =>
            /\ pc'[Main] \in {"cached", "authorize"}
            /\ ret' = ret
            /\ timeout'[Main] \in 1..30
            /\ polling_interval'[Main] \in (Sec(1) \div 10)..Sec(1)]_vars

\* a call with timeout=0 and polling_interval=5.0 (the only inputs of
\* SpecWait that give these two values) has timed out after one run loop of
\* 1.0 s and returned
C14_Witness ==
    /\ pc[Main] = "returned"
    /\ op = "get_current_location"
    /\ timeout[Main] = 1
    /\ polling_interval[Main] = Sec(1)
    /\ 0 \in WaitTimeoutInputs /\ Sec(5) \in WaitPollInputs
    /\ 1 \notin WaitTimeoutInputs /\ Sec(1) \notin WaitPollInputs
    /\ ~delegate[Main].is_updated
    /\ "stopUpdatingLocation" \in Range(trace[Main])
    /\ now - start_time[Main] = Sec(1)

\* the sensor calls of an acquisition that started its sensor, in order
SensorCalls ==
    <<"requestWhenInUseAuthorization", "startUpdatingLocation", "stopUpdatingLocation">>

\* C15: in an acquisition that starts the sensor, the start precedes the stop;
\* the stop happens exactly once, after the wait loop has exited on a
\* notification or on the timeout, and before the outcome is classified,
\* stored or returned; no acquisition returns with its sensor still started.
C15_StartStopOrder ==
    \A p \in Threads :
        /\ \E n \in 0..3 : trace[p] = SubSeq(SensorCalls, 1, n)
        /\ pc[p] = "runloop" => trace[p] = SubSeq(SensorCalls, 1, 2)
        /\ pc[p] = "stop" =>
               /\ trace[p] = SubSeq(SensorCalls, 1, 2)
               /\ delegate[p].is_updated \/ now - start_time[p] >= Sec(timeout[p])
        /\ pc[p] \in {"store_data", "store_ts"} => trace[p] = SensorCalls
        /\ result[p] # None => trace[p] = SensorCalls
        /\ pc[p] \in {"returned", "post", "finished", "idle"} =>
               trace[p] # SubSeq(SensorCalls, 1, 2)

\* an acquisition whose wait loop exited on the timeout has stopped the
\* sensor, stored its outcome and returned
C15_Witness ==
    /\ pc[Main] = "returned"
    /\ op = "get_current_location"
    /\ trace[Main] = SensorCalls
    /\ ~delegate[Main].is_updated
    /\ now - start_time[Main] >= Sec(timeout[Main])
    /\ cache.data = ret[Main]

C17_DurationOnly ==
    /\ [][pc[Main] = "idle" /\ op' = "set_cache_duration" =>
              /\ cache'.data = cache.data
              /\ cache'.timestamp = cache.timestamp
              /\ cache_before' = cache]_vars
    /\ [](pc[Main] = "returned" /\ op = "set_cache_duration" /\ cache.data # None =>
              LET age == now - cache_before.timestamp
              IN  /\ cache.timestamp = cache_before.timestamp
                  /\ age < Sec(cache.cache_duration) => CacheHit(TRUE, now)
                  /\ age >= Sec(cache.cache_duration) => ~CacheHit(TRUE, now))
    /\ [][Begins(Main) /\ use_cache'[Main] =>
              (pc'[Main] = "cached") =
                  (cache.data # None /\
                   now - cache.timestamp < Sec(cache.cache_duration))]_vars

\* an entry older than the 5 s duration it had is fresh again after
\* set_cache_duration has raised the duration to 30 s
C17_Witness ==
    /\ pc[Main] = "returned"
    /\ op = "set_cache_duration"
    /\ cache.data # None
    /\ cache_before.cache_duration = 5
    /\ cache.cache_duration = 30
    /\ now - cache.timestamp >= Sec(5)
    /\ CacheHit(TRUE, now)

\* an entry younger than the 30 s duration it had is stale after
\* set_cache_duration has lowered the duration to 5 s, exactly its age
C17_LoweredCase ==
    /\ pc[Main] = "returned"
    /\ op = "set_cache_duration"
    /\ cache.data # None
    /\ cache_before.cache_duration = 30
    /\ cache.cache_duration = 5
    /\ now - cache.timestamp = Sec(5)
    /\ ~CacheHit(TRUE, now)

\* thread p has finished an acquisition (a call that was not served from the
\* cache)
Acquired(p) ==
    IF p = Main
        THEN pc[p] = "returned" /\ op = "get_current_location" /\ trace[p] # <<>>
        ELSE pc[p] \in {"post", "finished"}

\* no thread is inside an operation
AllFinished ==
    /\ pc[Main] \in {"idle", "returned"}
    /\ \A w \in Workers : pc[w] \in {"unborn", "post", "finished"}

\* C18 as stated: once the acquisitions of a synchronous call and of the
\* background threads have all finished, and no clear_location_cache wrote
\* the data after the last store, the cache data is not empty and is the
\* whole outcome of the acquisition whose store came last.
C18_LastWriteWins ==
    /\ AllFinished
    /\ \A p \in Threads : Acquired(p)
    /\ last_store # None => last_store.outcome # None
    => /\ cache.data # None
       /\ last_store # None
       /\ cache.data = last_store.outcome

\* data and timestamp are those of the last write of the data, and the data
\* is empty exactly when the timestamp is 0
Paired ==
    /\ (cache.data = None) = (cache.timestamp = 0)
    /\ last_store # None =>
           /\ cache.data = last_store.outcome
           /\ cache.timestamp = last_store.timestamp

\* C19 as stated: in every interleaving of concurrent stores and clears, once
\* no operation is between its two writes, data and timestamp were written
\* by the same operation, and the data is empty exactly when the timestamp
\* is 0.
C19_PairedWrites == MidWrite = {} => Paired

\* C19 amended: the same, provided the last write of the data was made while
\* no other operation was between its own two writes; when the writes of two
\* operations interleave, the data of one can stay with the timestamp of the
\* other, or with the 0 of a clear.
C19_PairedWritesAlone ==
    MidWrite = {} /\ (last_store # None => last_store.alone) => Paired

\* a synchronous acquisition and a background acquisition have both stored an
\* outcome, the thread last and on its own, and both have finished
C19_Witness ==
    /\ MidWrite = {}
    /\ Acquired(Main) /\ trace[Main] = SensorCalls
    /\ \E w \in Workers :
           /\ pc[w] = "finished" /\ trace[w] = SensorCalls
           /\ last_store = [by |-> w, outcome |-> ret[w],
                            timestamp |-> current_time[w], alone |-> TRUE]
    /\ cache.data = last_store.outcome
    /\ cache.timestamp = last_store.timestamp
    /\ cache.timestamp > 0

\* C20 as stated: on a cache that holds data, at every time, get_cache_status
\* reports is_expired=false exactly when the cache check of a
\* get_current_location(use_cache=true) call made at that time would serve the
\* entry, and a seconds_until_expiration above 0 exactly then; the instant at
\* which the age of the entry equals the cache duration included.
C20_StatusAgreesWithFreshness ==
    [][pc[Main] = "idle" /\ op' = "get_cache_status" /\ cache.data # None =>
           /\ (~ret'[Main].is_expired) = CacheHit(TRUE, now)
           /\ (ret'[Main].seconds_until_expiration > 0) = CacheHit(TRUE, now)]_vars

====
